---- MODULE Spec2Model ----
(***************************************************************************)
(* Image-compression proxy (suko).  One worker process of the cluster is   *)
(* modelled as an event loop that interleaves requests at their two await  *)
(* points (upstream fetch, codec call); the primary process is modelled as *)
(* the supervisor that forks workers and re-forks on 'exit'.               *)
(*                                                                         *)
(*   Spec      the worker: admission queue, parseRequestParameters,        *)
(*             handleImageProxyRequest                                     *)
(*   FairSpec  Spec with weak fairness on the event loop's steps           *)
(*   PoolSpec  the primary process (cluster.fork / cluster.on('exit'))     *)
(*   PoolFairSpec  PoolSpec with weak fairness on the primary's steps      *)
(*   TimerSpec the worker together with its clock and the setInterval      *)
(*             callback of the idle memory reclaimer                       *)
(*   ParseSpec parseRequestParameters applied to one query string          *)
(***************************************************************************)
EXTENDS Integers, Sequences, FiniteSets, TLC

\* ------------------------------------------------------------------ bounds
\* requests one worker receives
NumReqs == 2
\* bytes of an upstream body; the codec's output has 1..BodySize+1 bytes
BodySize == 2
\* QUEUE_SIZE_PER_CLUSTER is unset or MaxActive
MaxActive == 1
\* CLUSTER_SIZE ranges over 1..MaxCluster
MaxCluster == 3
\* worker deaths the environment inflicts on the pool
MaxExits == 3
\* polls of the idle memory reclaimer the clock runs through
MaxPolls == 13
\* key/value pairs of a query string handed to parseRequestParameters alone
MaxPairs == 3

Reqs == 1..NumReqs
Bodies == {BodySize}
Sizes == 1..(BodySize + 1)

VARIABLES
  USE_BEST_COMPRESSION_FORMAT,  \* process.env flag, fixed per process
  ENABLE_ALTERNATIVE_FORMAT,    \* process.env flag, fixed per process
  queueSize,                    \* 0 models `false` (admission control off)
  locals,                       \* request.app.locals: ONE object per express app
  queue,                        \* express-queue: requests waiting for a slot
  pc,                           \* per request: where its handler is suspended
  query,                        \* per request: the query string it arrived with
  tryAlternativeFormat,         \* per request: parameter of the running invocation
  url,                          \* per request: `const url` of the running invocation
  body,                         \* per request: externalImageResponse.body.length
  nFetch,                       \* per request: superagent.get calls issued
  nCompress,                    \* per request: codec calls issued
  fetchFailed,                  \* per request: an upstream fetch rejected
  res,                          \* per request: the express response object
  log,                          \* per request: the records logger() wrote
  now,                          \* worker: Date.now(), in ms since the worker started
  lastRequestTimestamp,         \* worker: the variable of that name
  hinted,                       \* worker: the latest interval callback called gc
  parseInput,                   \* parse alone: the query string
  parseOutput,                  \* parse alone: what parseRequestParameters left behind
  clusterSize,                  \* primary: number of workers to keep
  forked,                       \* primary: loop index i of the start-up loop
  live,                         \* primary: ids of the worker processes alive
  exitEvents,                   \* primary: 'exit' events not yet handled
  nextId                        \* primary: id cluster.fork() gives the next worker

workerVars == <<USE_BEST_COMPRESSION_FORMAT, ENABLE_ALTERNATIVE_FORMAT, queueSize,
                locals, queue, pc, query, tryAlternativeFormat, url, body,
                nFetch, nCompress, fetchFailed, res, log,
                lastRequestTimestamp>>
timerVars == <<now, hinted>>
parseVars == <<parseInput, parseOutput>>
poolVars == <<clusterSize, forked, live, exitEvents, nextId>>
vars == <<workerVars, poolVars, timerVars, parseVars>>

\* ------------------------------------------------- parseRequestParameters
allowedQueryParameters == {"url", "jpg", "bw", "l"}

\* a query string is a sequence of <<key, value>> pairs; a URL is a sequence
\* of text pieces (concatenation of URLs is concatenation of the sequences)
LegacyPrefix == "http://1.1.1.1/bmi/"

\* the last value given for a recognised key, "" when the key is absent
RECURSIVE Filtered(_, _)
Filtered(q, key) ==
  IF q = <<>> THEN ""
  ELSE LET last == q[Len(q)]
       IN IF last[1] = key THEN last[2] ELSE Filtered(SubSeq(q, 1, Len(q) - 1), key)

\* lines 9-17 (variant: every extra pair written as &key=value)
RECURSIVE ExtraWithEquals(_)
ExtraWithEquals(q) ==
  IF q = <<>> THEN <<>>
  ELSE LET kv == Head(q)
           piece == IF kv[1] \in allowedQueryParameters THEN <<>>
                    ELSE <<"&", kv[1], "=", kv[2]>>
       IN piece \o ExtraWithEquals(Tail(q))

RECURSIVE ExtraQueryParams(_)
ExtraQueryParams(q) ==
  IF q = <<>> THEN <<>>
  ELSE LET kv == Head(q)
           piece == IF kv[1] \in allowedQueryParameters THEN <<>>
                    ELSE IF kv[2] # "" THEN <<"&", kv[1], "=", kv[2]>>
                    ELSE <<"&", kv[1]>>
       IN piece \o ExtraQueryParams(Tail(q))

\* String.replace with the (non-global) legacy-prefix pattern: first match only
RECURSIVE RewriteLegacy(_)
RewriteLegacy(u) ==
  IF u = <<>> THEN <<>>
  ELSE IF Head(u) = LegacyPrefix THEN <<"http://">> \o Tail(u)
  ELSE <<Head(u)>> \o RewriteLegacy(Tail(u))

NaN == 0 - 1
ParseInt(s) ==
  CASE s = "0" -> 0
    [] s = "50" -> 50
    [] s = "50px" -> 50
    [] s = "80" -> 80
    [] s = "100" -> 100
    [] OTHER -> NaN

\* lines 19-22 (variant: the test dropped)
SkipsUrlTest(q) == TRUE
HasUrl(q) == Filtered(q, "url") # ""

\* the object stored in request.app.locals (lines 30-35)
Context(q) ==
  [url |-> RewriteLegacy(<<Filtered(q, "url")>> \o ExtraQueryParams(q)),
   format |-> IF Filtered(q, "jpg") = "1" THEN "jpeg" ELSE "webp",
   grayscale |-> Filtered(q, "bw") = "1",
   quality |-> ParseInt(IF Filtered(q, "l") # "" THEN Filtered(q, "l") ELSE "80")]

\* ------------------------------------------------------------- the inputs
UrlOf(r) == <<"a", "b", "c", "d">>[r]

\* the query strings request r may arrive with: one naming its own target URL
\* (every other request with jpg, bw and l set), and one naming none (every
\* other request with an empty url parameter)
Queries(r) ==
  { IF r % 2 = 1
    THEN << <<"url", UrlOf(r)>> >>
    ELSE << <<"jpg", "1">>, <<"url", UrlOf(r)>>, <<"bw", "1">>, <<"l", "50">> >>,
    IF r % 2 = 1
    THEN << <<"jpg", "1">> >>
    ELSE << <<"url", "">> >> }

\* ------------------------------------------- the idle memory reclaimer
\* setInterval(..., 5000)
PollInterval == 5000
\* 10 * 1000 and 60 * 1000
IdleMin == 10000
IdleMax == 60000
\* updateLastRequestTimestamp: the value the variable takes at time t
\* (variant: the middleware leaves the variable alone)
KeepsLastRequestTimestamp(last, t) == last
UpdateLastRequestTimestamp(last, t) == t

\* the early return of the interval callback
\* (variants: the upper test dropped, the lower test dropped)
SkipsOnlyBusy(timeSinceLastRequest) == timeSinceLastRequest < IdleMin
SkipsOnlyStale(timeSinceLastRequest) == timeSinceLastRequest > IdleMax
Skips(timeSinceLastRequest) ==
  timeSinceLastRequest < IdleMin \/ timeSinceLastRequest > IdleMax

NoLocals == [url |-> <<>>, format |-> "", grayscale |-> FALSE, quality |-> 0]
NoHeaders == [contentLength |-> 0, xOriginalSize |-> 0, xBytesSaved |-> 0]
NoResponse == [headersSent |-> FALSE, kind |-> "none", location |-> <<>>,
               headers |-> NoHeaders, nResponses |-> 0]

\* what a run of parseRequestParameters leaves when it has not run
NotParsed == [sent |-> "", locals |-> NoLocals]

TimerIdle == now = 0 /\ hinted = FALSE
ParseIdle == parseInput = <<>> /\ parseOutput = NotParsed

PoolIdle ==
  /\ clusterSize = 0
  /\ forked = 0
  /\ live = {}
  /\ exitEvents = <<>>
  /\ nextId = 1

Init ==
  /\ USE_BEST_COMPRESSION_FORMAT \in BOOLEAN
  /\ ENABLE_ALTERNATIVE_FORMAT \in BOOLEAN
  /\ queueSize \in {0, MaxActive}
  /\ locals = NoLocals
  /\ queue = <<>>
  /\ pc = [r \in Reqs |-> "new"]
  /\ query = [r \in Reqs |-> <<>>]
  /\ tryAlternativeFormat = [r \in Reqs |-> FALSE]
  /\ url = [r \in Reqs |-> <<>>]
  /\ body = [r \in Reqs |-> 0]
  /\ nFetch = [r \in Reqs |-> 0]
  /\ nCompress = [r \in Reqs |-> 0]
  /\ fetchFailed = [r \in Reqs |-> FALSE]
  /\ res = [r \in Reqs |-> NoResponse]
  /\ log = [r \in Reqs |-> <<>>]
  /\ lastRequestTimestamp = 0
  /\ TimerIdle
  /\ ParseIdle
  /\ PoolIdle

\* ---------------------------------------------------- admission (express-queue)
\* requests that passed the admission controller and have not completed
Active == {r \in Reqs : pc[r] \in {"fetch", "compress"}}

\* app.use(queue({activeLimit: queueSize, queuedLimit: -1})) only when
\* queueSize !== false; a job starts when it is first in line and a slot is free
\* (variant: the middleware is never mounted)
AdmitsBypassed(waiting) == TRUE
\* (variant: with a limit configured no job is ever started)
AdmitsNever(waiting) == queueSize = 0
Admits(waiting) ==
  \/ queueSize = 0
  \/ /\ waiting = <<>>
     /\ Cardinality(Active) < queueSize

\* ------------------------------------------------ handleImageProxyRequest
Flip(format) == IF format = "webp" THEN "jpeg" ELSE "webp"

\* lines 51-55: the format written back to app.locals on entry
EntryLocals(l, alt) == [l EXCEPT !.format = IF alt THEN Flip(@) ELSE @]

\* line 92 (variant: >= written for >)
IsWinOrTie(savedImageSize) == savedImageSize >= 0
IsWin(savedImageSize) == savedImageSize > 0

\* line 102 (variants: the !tryAlternativeFormat test dropped, the flag test dropped)
RetriesAgain(alt) == ENABLE_ALTERNATIVE_FORMAT
RetriesWithoutFlag(alt) == ~alt
ShouldTryAlternative(alt) == ~alt /\ ENABLE_ALTERNATIVE_FORMAT

\* line 146 (variants: the headersSent guard dropped, the redirect dropped)
CatchAlwaysRedirects(headersSent) == TRUE
CatchNeverRedirects(headersSent) == FALSE
CatchRedirects(headersSent) == ~headersSent

\* appResponse.redirect(u); a response whose headers are out keeps its first form
Redirected(rs, u) ==
  [rs EXCEPT !.nResponses = @ + 1,
             !.headersSent = TRUE,
             !.kind = IF rs.headersSent THEN @ ELSE "redirect",
             !.location = IF rs.headersSent THEN @ ELSE u]

\* lines 145-148
Catch(rs, u) == IF CatchRedirects(rs.headersSent) THEN Redirected(rs, u) ELSE rs

\* appResponse.send / appResponse.redirect inside the try block: the call
\* returns, or throws before or after the headers went out
EmitOutcomes == {"ok", "throwBefore", "throwAfter"}

Emitted(rs, kind, loc, u, e) ==
  LET sent == [rs EXCEPT !.nResponses = @ + 1, !.headersSent = TRUE,
                         !.kind = kind, !.location = loc]
  IN CASE e = "ok" -> sent
       [] e = "throwAfter" -> Catch(sent, u)
       [] e = "throwBefore" -> Catch(rs, u)

\* the invocation returned: its parameters and local constants are gone
Returned(r) ==
  /\ pc' = [pc EXCEPT ![r] = "done"]
  /\ tryAlternativeFormat' = [tryAlternativeFormat EXCEPT ![r] = FALSE]
  /\ url' = [url EXCEPT ![r] = <<>>]
  /\ body' = [body EXCEPT ![r] = 0]

\* a log record, reduced to its level, its reason and its savedSize field
Record(level, reason, savedSize) ==
  [level |-> level, reason |-> reason, savedSize |-> savedSize]

\* lines 150-162
ErrorRecord(reason) == Record("error", reason, 0)
\* lines 103-117
RetryRecord == Record("info", "No size reduction, trying alternative format", 0)
\* lines 125-141, written when the response closes
CloseRecord(savedImageSize) == Record("info", "closed", savedImageSize)

\* lines 103-117, ahead of the recursive call of line 119
\* (variant: the retry is not logged)
RetryNotLogged(lg) == lg
RetryLogged(lg) == Append(lg, RetryRecord)

\* parseRequestParameters, updateLastRequestTimestamp and the synchronous head
\* of handleImageProxyRequest, up to the await of the upstream fetch
Pipeline(r, q) ==
  IF ~HasUrl(q)
  THEN /\ res' = [res EXCEPT ![r] = [@ EXCEPT !.headersSent = TRUE, !.kind = "ident",
                                              !.nResponses = @ + 1]]
       /\ pc' = [pc EXCEPT ![r] = "done"]
       /\ UNCHANGED <<locals, url, nFetch, lastRequestTimestamp>>
  ELSE /\ locals' = EntryLocals(Context(q), FALSE)
       /\ lastRequestTimestamp' = UpdateLastRequestTimestamp(lastRequestTimestamp, now)
       /\ url' = [url EXCEPT ![r] = Context(q).url]
       /\ nFetch' = [nFetch EXCEPT ![r] = @ + 1]
       /\ pc' = [pc EXCEPT ![r] = "fetch"]
       /\ UNCHANGED res

\* a request reaches the worker; requests are numbered in arrival order
Arrive(r, q) ==
  /\ pc[r] = "new"
  /\ \A s \in Reqs : s < r => pc[s] # "new"
  /\ query' = [query EXCEPT ![r] = q]
  /\ IF Admits(queue)
     THEN Pipeline(r, q) /\ UNCHANGED queue
     ELSE /\ queue' = Append(queue, r)
          /\ pc' = [pc EXCEPT ![r] = "queued"]
          /\ UNCHANGED <<locals, url, nFetch, res, lastRequestTimestamp>>
  /\ UNCHANGED <<USE_BEST_COMPRESSION_FORMAT, ENABLE_ALTERNATIVE_FORMAT, queueSize,
                 tryAlternativeFormat, body,
                 nCompress, fetchFailed, log, poolVars, timerVars, parseVars>>

\* a slot freed: the first waiting request starts
Dequeue(r) ==
  /\ queue # <<>>
  /\ Head(queue) = r
  /\ Admits(<<>>)
  /\ queue' = Tail(queue)
  /\ Pipeline(r, query[r])
  /\ UNCHANGED <<USE_BEST_COMPRESSION_FORMAT, ENABLE_ALTERNATIVE_FORMAT, queueSize,
                 query, tryAlternativeFormat, body,
                 nCompress, fetchFailed, log, poolVars, timerVars, parseVars>>

\* lines 60-75: the fetch resolves and the codec is called with app.locals
FetchOk(r, size) ==
  /\ pc[r] = "fetch"
  /\ body' = [body EXCEPT ![r] = size]
  /\ nCompress' = [nCompress EXCEPT ![r] = @ + 1]
  /\ pc' = [pc EXCEPT ![r] = "compress"]
  /\ UNCHANGED <<USE_BEST_COMPRESSION_FORMAT, ENABLE_ALTERNATIVE_FORMAT, queueSize,
                 locals, queue, query, tryAlternativeFormat, url,
                 nFetch, fetchFailed, res, log, lastRequestTimestamp,
                 poolVars, timerVars, parseVars>>

\* lines 60-68, 145-165: the fetch rejects
FetchFail(r) ==
  /\ pc[r] = "fetch"
  /\ fetchFailed' = [fetchFailed EXCEPT ![r] = TRUE]
  /\ res' = [res EXCEPT ![r] = Catch(@, url[r])]
  /\ log' = [log EXCEPT ![r] = Append(@, ErrorRecord("fetch"))]
  /\ Returned(r)
  /\ UNCHANGED <<USE_BEST_COMPRESSION_FORMAT, ENABLE_ALTERNATIVE_FORMAT, queueSize,
                 locals, queue, query, nFetch, nCompress, lastRequestTimestamp,
                 poolVars, timerVars, parseVars>>

\* lines 72-75, 145-165: the codec rejects
CompressFail(r) ==
  /\ pc[r] = "compress"
  /\ res' = [res EXCEPT ![r] = Catch(@, url[r])]
  /\ log' = [log EXCEPT ![r] = Append(@, ErrorRecord("codec"))]
  /\ Returned(r)
  /\ UNCHANGED <<USE_BEST_COMPRESSION_FORMAT, ENABLE_ALTERNATIVE_FORMAT, queueSize,
                 locals, queue, query, nFetch, nCompress, fetchFailed,
                 lastRequestTimestamp, poolVars, timerVars, parseVars>>

\* lines 125-165: after the emission, the close observer or the catch block
Logged(lg, savedImageSize, e) ==
  Append(lg, IF e = "ok" THEN CloseRecord(savedImageSize) ELSE ErrorRecord("emit"))

\* lines 79-100: the codec result is smaller, the image is sent
SendImage(r, size, e) ==
  /\ pc[r] = "compress"
  /\ IsWin(body[r] - size)
  /\ LET hdr == [contentLength |-> size, xOriginalSize |-> body[r],
                 xBytesSaved |-> body[r] - size]
     IN res' = [res EXCEPT ![r] = Emitted([@ EXCEPT !.headers = hdr], "image",
                                          <<>>, url[r], e)]
  /\ log' = [log EXCEPT ![r] = Logged(@, body[r] - size, e)]
  /\ Returned(r)
  /\ UNCHANGED <<USE_BEST_COMPRESSION_FORMAT, ENABLE_ALTERNATIVE_FORMAT, queueSize,
                 locals, queue, query, nFetch, nCompress, fetchFailed,
                 lastRequestTimestamp, poolVars, timerVars, parseVars>>

\* lines 101-120 and, in the recursive call, lines 51-68
TryAlternative(r, size) ==
  /\ pc[r] = "compress"
  /\ ~IsWin(body[r] - size)
  /\ ShouldTryAlternative(tryAlternativeFormat[r])
  /\ log' = [log EXCEPT ![r] = RetryLogged(@)]
  /\ tryAlternativeFormat' = [tryAlternativeFormat EXCEPT ![r] = TRUE]
  /\ locals' = EntryLocals(locals, TRUE)
  /\ url' = [url EXCEPT ![r] = locals.url]
  /\ body' = [body EXCEPT ![r] = 0]
  /\ nFetch' = [nFetch EXCEPT ![r] = @ + 1]
  /\ pc' = [pc EXCEPT ![r] = "fetch"]
  /\ UNCHANGED <<USE_BEST_COMPRESSION_FORMAT, ENABLE_ALTERNATIVE_FORMAT, queueSize,
                 queue, query, nCompress, fetchFailed, res,
                 lastRequestTimestamp, poolVars, timerVars, parseVars>>

\* lines 101-123: no reduction and no further attempt
Redirect(r, size, e) ==
  /\ pc[r] = "compress"
  /\ ~IsWin(body[r] - size)
  /\ ~ShouldTryAlternative(tryAlternativeFormat[r])
  /\ res' = [res EXCEPT ![r] = Emitted(@, "redirect", url[r], url[r], e)]
  /\ log' = [log EXCEPT ![r] = Logged(@, body[r] - size, e)]
  /\ Returned(r)
  /\ UNCHANGED <<USE_BEST_COMPRESSION_FORMAT, ENABLE_ALTERNATIVE_FORMAT, queueSize,
                 locals, queue, query, nFetch, nCompress, fetchFailed,
                 lastRequestTimestamp, poolVars, timerVars, parseVars>>

\* what the event loop does for a request once it has arrived
Step(r) ==
  \/ Dequeue(r)
  \/ \E size \in Bodies : FetchOk(r, size)
  \/ FetchFail(r)
  \/ CompressFail(r)
  \/ \E size \in Sizes, e \in EmitOutcomes : SendImage(r, size, e)
  \/ \E size \in Sizes : TryAlternative(r, size)
  \/ \E size \in Sizes, e \in EmitOutcomes : Redirect(r, size, e)

Next ==
  \E r \in Reqs :
    \/ \E q \in Queries(r) : Arrive(r, q)
    \/ Dequeue(r)
    \/ \E size \in Bodies : FetchOk(r, size)
    \/ FetchFail(r)
    \/ CompressFail(r)
    \/ \E size \in Sizes, e \in EmitOutcomes : SendImage(r, size, e)
    \/ \E size \in Sizes : TryAlternative(r, size)
    \/ \E size \in Sizes, e \in EmitOutcomes : Redirect(r, size, e)

Spec == Init /\ [][Next]_vars

\* every pending fetch and codec call settles, and a freed slot is handed on
FairSpec == Spec /\ \A r \in Reqs : WF_vars(Step(r))

\* ------------------------------------------------ the worker and its clock
\* 5000 ms pass and the interval callback runs
Interval ==
  /\ now < MaxPolls * PollInterval
  /\ now' = now + PollInterval
  /\ hinted' = ~Skips(now' - lastRequestTimestamp)
  /\ UNCHANGED <<workerVars, poolVars, parseVars>>

\* without ENABLE_ALTERNATIVE_FORMAT the handler never calls itself
TimerNext ==
  \/ \E r \in Reqs :
       \/ \E q \in Queries(r) : Arrive(r, q)
       \/ Dequeue(r)
       \/ \E size \in Bodies : FetchOk(r, size)
       \/ FetchFail(r)
       \/ CompressFail(r)
       \/ \E size \in Sizes, e \in EmitOutcomes : SendImage(r, size, e)
       \/ \E size \in Sizes, e \in EmitOutcomes : Redirect(r, size, e)
  \/ Interval

\* a worker started with QUEUE_SIZE_PER_CLUSTER set and neither format flag
TimerInit ==
  /\ Init
  /\ ~USE_BEST_COMPRESSION_FORMAT
  /\ ~ENABLE_ALTERNATIVE_FORMAT
  /\ queueSize = MaxActive

TimerSpec == TimerInit /\ [][TimerNext]_vars

\* ------------------------------------------------ the primary process
WorkerIdle ==
  /\ USE_BEST_COMPRESSION_FORMAT = FALSE
  /\ ENABLE_ALTERNATIVE_FORMAT = FALSE
  /\ queueSize = 0
  /\ locals = NoLocals
  /\ queue = <<>>
  /\ pc = [r \in Reqs |-> "new"]
  /\ query = [r \in Reqs |-> <<>>]
  /\ tryAlternativeFormat = [r \in Reqs |-> FALSE]
  /\ url = [r \in Reqs |-> <<>>]
  /\ body = [r \in Reqs |-> 0]
  /\ nFetch = [r \in Reqs |-> 0]
  /\ nCompress = [r \in Reqs |-> 0]
  /\ fetchFailed = [r \in Reqs |-> FALSE]
  /\ res = [r \in Reqs |-> NoResponse]
  /\ log = [r \in Reqs |-> <<>>]
  /\ lastRequestTimestamp = 0
  /\ TimerIdle

PoolInit ==
  /\ clusterSize \in 1..MaxCluster
  /\ forked = 0
  /\ live = {}
  /\ exitEvents = <<>>
  /\ nextId = 1
  /\ WorkerIdle
  /\ ParseIdle

\* worker deaths so far: every fork took one id
Deaths == (nextId - 1) - Cardinality(live)

\* line 30: the workers the 'exit' listener forks, given cluster's next worker id
\* (variants: no fork, two forks)
ForksNone(id) == {}
ForksTwice(id) == {id, id + 1}
ForkedOnExit(id) == {id}

\* lines 24-26: one iteration of the start-up loop
Fork ==
  /\ forked < clusterSize
  /\ forked' = forked + 1
  /\ live' = live \cup {nextId}
  /\ nextId' = nextId + 1
  /\ UNCHANGED <<clusterSize, exitEvents, workerVars, timerVars, parseVars>>

\* a worker process dies; the primary is told by an 'exit' event
WorkerExit(w) ==
  /\ w \in live
  /\ Deaths < MaxExits
  /\ live' = live \ {w}
  /\ exitEvents' = Append(exitEvents, w)
  /\ UNCHANGED <<clusterSize, forked, nextId, workerVars, timerVars, parseVars>>

\* lines 28-31: the listener runs once the start-up code has returned
OnExit ==
  /\ forked = clusterSize
  /\ exitEvents # <<>>
  /\ exitEvents' = Tail(exitEvents)
  /\ live' = live \cup ForkedOnExit(nextId)
  /\ nextId' = nextId + Cardinality(ForkedOnExit(nextId))
  /\ UNCHANGED <<clusterSize, forked, workerVars, timerVars, parseVars>>

PoolNext ==
  \/ Fork
  \/ \E w \in live : WorkerExit(w)
  \/ OnExit

PoolSpec == PoolInit /\ [][PoolNext]_vars

\* the primary's own steps are always taken; worker deaths are not forced
PoolFairSpec == PoolSpec /\ WF_vars(Fork) /\ WF_vars(OnExit)

\* ------------------------------------------ parseRequestParameters alone
\* key/value pairs URLSearchParams may yield
ParsePairs ==
  { <<"url", "a">>, <<"url", LegacyPrefix>>, <<"url", "">>,
    <<"jpg", "1">>, <<"jpg", "0">>,
    <<"bw", "1">>, <<"bw", "true">>,
    <<"l", "50">>, <<"l", "50px">>, <<"l", "abc">>, <<"l", "">>,
    <<"x", "1">>, <<"y", "">> }

ParseQueries == UNION {[1..n -> ParsePairs] : n \in 0..MaxPairs}

\* the whole middleware: what it sends itself, and what it stores in app.locals
ParseRequestParameters(q) ==
  IF ~HasUrl(q)
  THEN [sent |-> "bandwidth-hero-proxy", locals |-> NoLocals]
  ELSE [sent |-> "", locals |-> Context(q)]

ParseInit ==
  /\ parseInput \in ParseQueries
  /\ parseOutput = NotParsed
  /\ WorkerIdle
  /\ PoolIdle

Parse ==
  /\ parseOutput = NotParsed
  /\ parseOutput' = ParseRequestParameters(parseInput)
  /\ UNCHANGED <<parseInput, workerVars, poolVars, timerVars>>

ParseSpec == ParseInit /\ [][Parse]_vars

\* ------------------------------------------------------------ the claims
Logs(r) == {log[r][i] : i \in DOMAIN log[r]}
\* the target URL the request's own query string names
OwnUrl(r) == Context(query[r]).url
\* the alternative-format fallback was taken for the request
FallbackTaken(r) == RetryRecord \in Logs(r)
\* an attempt ended without exception and found no size reduction
ClosedWithoutReduction(r) ==
  \E rec \in Logs(r) : rec.reason = "closed" /\ rec.savedSize <= 0

\* C1: the image body is sent only when savedSize = originalSize - compressedSize
\* is strictly positive, and then content-length, x-original-size and
\* x-bytes-saved carry compressedSize, originalSize and their difference.
C1_SentOnlyWhenSmaller ==
  \A r \in Reqs :
    /\ res[r].kind = "image" =>
         /\ res[r].headers.xBytesSaved > 0
         /\ res[r].headers.xOriginalSize \in Bodies
         /\ res[r].headers.contentLength =
              res[r].headers.xOriginalSize - res[r].headers.xBytesSaved
         /\ \A rec \in Logs(r) :
              rec.reason = "closed" => rec.savedSize = res[r].headers.xBytesSaved
    /\ ClosedWithoutReduction(r) => res[r].kind # "image"

C1_Witness ==
  \E r \in Reqs :
    /\ res[r].kind = "image"
    /\ res[r].headers.contentLength < res[r].headers.xOriginalSize
    /\ \E s \in Reqs : ClosedWithoutReduction(s)

\* C2: at most two compression attempts per request; a second attempt that also
\* finds savedSize <= 0 ends in a redirect to the request's original URL with no
\* image body; there is no third attempt.
C2_AtMostTwoAttempts ==
  \A r \in Reqs :
    /\ nCompress[r] <= 2
    /\ (nCompress[r] = 2 /\ ClosedWithoutReduction(r)) =>
         /\ res[r].kind = "redirect"
         /\ res[r].location = OwnUrl(r)

\* C3 (as claimed): the upstream URL is fetched at most once per request,
\* whether or not the fallback runs.
C3_FetchedAtMostOnce == \A r \in Reqs : nFetch[r] <= 1

\* C3 (amended): every attempt issues its own upstream fetch: a request that
\* reached the handler has fetched once, and exactly twice once the fallback
\* was taken; never more.
C3_OneFetchPerAttempt ==
  \A r \in Reqs :
    nFetch[r] = IF pc[r] \in {"new", "queued"} \/ ~HasUrl(query[r]) THEN 0
                ELSE IF FallbackTaken(r) THEN 2
                ELSE 1

C3_Witness ==
  \E r \in Reqs : FallbackTaken(r) /\ nFetch[r] = 2 /\ nCompress[r] = 2

\* C4 (as claimed): the second attempt is made only on the first attempt, with
\* the fallback flag enabled and in single-format mode; in best-format mode a
\* first attempt with savedSize <= 0 redirects at once.
C4_FallbackOnlyInSingleFormatMode ==
  \A r \in Reqs :
    /\ nCompress[r] <= 2
    /\ FallbackTaken(r) =>
         ENABLE_ALTERNATIVE_FORMAT /\ ~USE_BEST_COMPRESSION_FORMAT
    /\ (USE_BEST_COMPRESSION_FORMAT /\ ClosedWithoutReduction(r)) =>
         /\ nCompress[r] = 1
         /\ res[r].kind = "redirect"
         /\ res[r].location = OwnUrl(r)

\* C4 (amended): the second attempt is made only on the first attempt and with
\* the fallback flag enabled, whatever the compression mode; with the flag
\* enabled a first attempt with savedSize <= 0 is always followed by a second
\* one, and with the flag disabled it redirects to the original URL at once.
C4_FallbackOnlyWhenEnabled ==
  \A r \in Reqs :
    /\ nCompress[r] <= 2
    /\ FallbackTaken(r) => ENABLE_ALTERNATIVE_FORMAT
    /\ (ENABLE_ALTERNATIVE_FORMAT /\ ClosedWithoutReduction(r)) =>
         FallbackTaken(r) /\ nCompress[r] = 2
    /\ (~ENABLE_ALTERNATIVE_FORMAT /\ ClosedWithoutReduction(r)) =>
         /\ nCompress[r] = 1
         /\ res[r].kind = "redirect"
         /\ res[r].location = OwnUrl(r)

C4_Witness ==
  /\ USE_BEST_COMPRESSION_FORMAT
  /\ ENABLE_ALTERNATIVE_FORMAT
  /\ \E r \in Reqs : FallbackTaken(r) /\ nCompress[r] = 2

\* C5: no request receives two responses: at most one of {send image, redirect}
\* is performed, also across the fallback attempt and exceptions around the
\* emission; the catch block redirects only when the headers are not yet sent.
C5_AtMostOneResponse ==
  \A r \in Reqs :
    /\ res[r].nResponses <= 1
    /\ res[r].headersSent <=> res[r].nResponses = 1

C5_Witness ==
  \E r \in Reqs :
    /\ res[r].kind = "image"
    /\ ErrorRecord("emit") \in Logs(r)
    /\ res[r].nResponses = 1

\* C6: a failed upstream fetch, on any attempt, is followed by no compression of
\* that fetch and no image body, by a redirect to the request's own target URL
\* and by an error record carrying the failure reason.
C6_FetchFailureRedirects ==
  \A r \in Reqs :
    fetchFailed[r] =>
      /\ nCompress[r] = nFetch[r] - 1
      /\ res[r].kind = "redirect"
      /\ res[r].location = OwnUrl(r)
      /\ ErrorRecord("fetch") \in Logs(r)

\* C7: request contexts are isolated: the url a request's invocation holds, the
\* options its codec call receives and the target of its redirect come from its
\* own query string, whatever other requests interleave.
C7_ContextsIsolated ==
  [][\A r \in Reqs :
       /\ (pc[r] = "fetch" /\ pc'[r] = "compress") =>
            locals = EntryLocals(Context(query[r]), tryAlternativeFormat[r])
       /\ pc'[r] \in {"fetch", "compress"} => url'[r] = Context(query'[r]).url
       /\ res'[r].kind = "redirect" => res'[r].location = Context(query'[r]).url
    ]_vars

C9_ActiveLimit ==
  queueSize > 0 =>
    /\ Cardinality(Active) <= queueSize
    /\ \A r \in Reqs :
         /\ pc[r] = "queued" <=> \E i \in DOMAIN queue : queue[i] = r
         /\ pc[r] = "queued" =>
              /\ res[r] = NoResponse
              /\ nFetch[r] = 0
              /\ nCompress[r] = 0
              /\ url[r] = <<>>
              /\ HasUrl(query[r]) => locals.url # OwnUrl(r)

C9_Witness ==
  /\ queueSize > 0
  /\ Cardinality(Active) = queueSize
  /\ queue # <<>>

\* C10: each worker exit is answered by exactly one fork, so the live workers
\* never exceed clusterSize and, once exits stop, the pool is back at
\* clusterSize for good.
C10_PoolRestored ==
  /\ [](Cardinality(live) + Len(exitEvents) = forked /\ forked <= clusterSize)
  /\ <>[](Cardinality(live) = clusterSize)

C10_Witness ==
  /\ Deaths = MaxExits
  /\ exitEvents = <<>>
  /\ Cardinality(live) = clusterSize

\* the interval callback ran in this step and called gc
HintFires == now' # now /\ hinted'
\* timeSinceLastRequest as the callback of this step computed it
TimeSinceLastRequest == now' - lastRequestTimestamp

Enters(r) == pc[r] \in {"new", "queued"} /\ pc'[r] \notin {"new", "queued"}
\* the query string of the request names no target URL
UrlMissing(q) ==
  \A i \in DOMAIN q :
    (q[i][1] = "url" /\ q[i][2] # "") => \E j \in DOMAIN q : j > i /\ q[j] = <<"url", "">>

\* C12: a request whose url parameter is absent or empty is answered at once
\* with the static identification response and the pipeline stops: no context
\* is stored, and no upstream fetch and no compression is ever attempted for it.
C12_NoUrlShortCircuits ==
  /\ [](\A r \in Reqs :
          (pc[r] \notin {"new", "queued"} /\ UrlMissing(query[r])) =>
             /\ pc[r] = "done"
             /\ res[r].kind = "ident"
             /\ res[r].nResponses = 1
             /\ nFetch[r] = 0
             /\ nCompress[r] = 0
             /\ log[r] = <<>>)
  /\ [][\A r \in Reqs :
          (Enters(r) /\ UrlMissing(query'[r])) => locals' = locals]_vars

\* an identification response was given while another request's context stayed
C12_Witness ==
  \E r \in Reqs :
    /\ pc[r] = "done"
    /\ query[r] = << <<"url", "">> >>
    /\ res[r].kind = "ident"
    /\ locals # NoLocals

recognized == {"url", "jpg", "bw", "l"}
\* the value of the last pair of the query string with the given key
LastValue(q, key) ==
  q[CHOOSE i \in DOMAIN q : q[i][1] = key /\ \A j \in DOMAIN q : j > i => q[j][1] # key][2]
Given(q, key) == \E i \in DOMAIN q : q[i][1] = key
\* the text one extra pair is forwarded as
Forwarded(kv) == IF kv[2] = "" THEN <<"&", kv[1]>> ELSE <<"&", kv[1], "=", kv[2]>>
RECURSIVE Concat(_)
Concat(ss) == IF ss = <<>> THEN <<>> ELSE Head(ss) \o Concat(Tail(ss))
IsExtra(kv) == kv[1] \notin recognized
\* X followed by the extra pairs in encounter order
ForwardedUrl(q) ==
  LET extras == SelectSeq(q, IsExtra)
  IN <<LastValue(q, "url")>> \o Concat([i \in DOMAIN extras |-> Forwarded(extras[i])])
\* the first occurrence of the legacy proxy prefix replaced by a plain http://
Unwrapped(u) ==
  LET hits == {i \in DOMAIN u : u[i] = LegacyPrefix}
  IN [i \in DOMAIN u |-> IF i \in hits /\ \A j \in hits : i <= j THEN "http://" ELSE u[i]]
\* the query string names a target URL and the middleware has run
NamesUrl(q) == Given(q, "url") /\ LastValue(q, "url") # ""

\* C13 (as stated): for every query string containing url=X and any extra pairs,
\* the target URL produced equals X followed by the extra pairs in encounter
\* order, each as &key=value, or &key when the value is empty; recognized
\* parameters are never appended.
C13_UrlIsForwardedVerbatim ==
  (parseOutput # NotParsed /\ NamesUrl(parseInput)) =>
     parseOutput.locals.url = ForwardedUrl(parseInput)

\* C13 (amended): the target URL produced equals X (the value of the last url
\* parameter) followed by the extra pairs in encounter order, each as &key=value
\* or &key, with the first legacy proxy prefix in that text replaced by http://;
\* recognized parameters are never appended.
C13_UrlIsForwardedAndUnwrapped ==
  (parseOutput # NotParsed /\ NamesUrl(parseInput)) =>
     /\ parseOutput.sent = ""
     /\ parseOutput.locals.url = Unwrapped(ForwardedUrl(parseInput))

\* a url between two extra pairs, one of them without a value
C13_Witness ==
  /\ parseInput = << <<"y", "">>, <<"url", "a">>, <<"x", "1">> >>
  /\ parseOutput.locals.url = <<"a", "&", "y", "&", "x", "=", "1">>

\* the texts that are integers, and the integer each one denotes
IntegerOf == ("0" :> 0) @@ ("50" :> 50) @@ ("80" :> 80) @@ ("100" :> 100)
\* the quality the claim gives a query string
ClaimedQuality(q) ==
  IF Given(q, "l") /\ LastValue(q, "l") \in DOMAIN IntegerOf
  THEN IntegerOf[LastValue(q, "l")]
  ELSE 80

\* C14 (as stated): the context built by parseRequestParameters has format jpeg
\* exactly when jpg=1 and webp otherwise, grayscale true exactly when bw=1, and
\* quality 80 whenever l is absent or malformed, otherwise the integer value of l.
C14_ContextFromFlags ==
  (parseOutput # NotParsed /\ NamesUrl(parseInput)) =>
     LET q == parseInput
         c == parseOutput.locals
     IN /\ c.format = IF Given(q, "jpg") /\ LastValue(q, "jpg") = "1" THEN "jpeg" ELSE "webp"
        /\ c.grayscale = (Given(q, "bw") /\ LastValue(q, "bw") = "1")
        /\ c.quality = ClaimedQuality(q)

\* the format the request's own query string asks for
OwnFormat(r) == Context(query[r]).format
InFlight(r) == pc[r] \in {"fetch", "compress"}

\* C15 (as stated): within one request the context's format is unchanged during
\* the first attempt and flipped exactly once, at the start of the fallback
\* attempt, so the second compression uses the format opposite to the first;
\* only the second attempt's outcome is terminal.
C15_FormatFlipsOnce ==
  \A r \in Reqs :
    /\ (InFlight(r) /\ ~tryAlternativeFormat[r]) => locals.format = OwnFormat(r)
    /\ (InFlight(r) /\ tryAlternativeFormat[r]) =>
         /\ locals.format = Flip(OwnFormat(r))
         /\ FallbackTaken(r)
         /\ ~res[r].headersSent
    /\ (pc[r] = "done" /\ FallbackTaken(r)) =>
         /\ nCompress[r] <= 2
         /\ res[r].nResponses = 1

\* C16: within one request and each attempt, the upstream fetch completes or
\* fails before compression begins, compression completes or fails before any
\* response is emitted, and the informational log of a failed first attempt
\* precedes the start of the fallback attempt.
C16_AttemptIsOrdered ==
  \A r \in Reqs :
    /\ nCompress[r] <= nFetch[r]
    /\ pc[r] = "fetch" => nCompress[r] = nFetch[r] - 1
    /\ pc[r] = "compress" => nCompress[r] = nFetch[r] /\ body[r] \in Bodies
    /\ fetchFailed[r] => nCompress[r] = nFetch[r] - 1
    /\ InFlight(r) => ~res[r].headersSent /\ res[r].nResponses = 0
    /\ (res[r].kind \in {"image", "redirect"} /\ ~fetchFailed[r]) => nCompress[r] = nFetch[r]
    /\ tryAlternativeFormat[r] => FallbackTaken(r)
    /\ nFetch[r] = 2 => FallbackTaken(r)

\* a request whose first attempt found no reduction and whose second one won
C16_Witness ==
  \E r \in Reqs :
    /\ pc[r] = "done"
    /\ nFetch[r] = 2
    /\ nCompress[r] = 2
    /\ log[r][1] = RetryRecord
    /\ res[r].kind = "image"

\* the request is handed to the chain in this step with a query naming a target URL
EntersWithUrl(r) == Enters(r) /\ ~UrlMissing(query'[r])

C18_HintOnlyWhenIdle ==
  [][HintFires => Active = {}]_vars

\* C18 (amended): the reclaimer does not look at the requests in flight: with a
\* request awaiting its fetch or its compression, a poll triggers the hint
\* exactly when the last stamped request entered at least 10 s and at most 60 s
\* before, so never within 10 s of a request's entry.
C18_HintIgnoresInFlight ==
  [][(now' # now /\ Active # {}) =>
       hinted' = (TimeSinceLastRequest \in IdleMin..IdleMax)]_vars

\* the hint was triggered while a request was awaiting its compression
C18_Witness ==
  /\ hinted
  /\ now - lastRequestTimestamp \in IdleMin..IdleMax
  /\ \E r \in Reqs : pc[r] = "compress"

\* the request has been handed to the route's middleware chain
Admitted(r) == pc[r] \notin {"new", "queued"}

====
